---- MODULE Spec2Model ----
(***************************************************************************)
(* State-machine model of the LMS backend (devsilvar/lms-backend):         *)
(*   - the auth controller (login, refresh, logout, forgot/reset password) *)
(*   - the review subsystem (submit, edit, delete, denormalized rating)    *)
(*   - the course authoring controllers (curriculum, lesson, quiz,         *)
(*     question) with their role and ownership guards.                     *)
(* Time is counted in minutes.                                             *)
(***************************************************************************)
EXTENDS Integers, Sequences, FiniteSets, TLC

VARIABLES
    \* ---- auth ----
    build,          \* which compiled version of utils/token.js is deployed
    now,            \* Date.now(), in minutes
    ticks,          \* number of clock advances so far
    refreshTokens,  \* rows of table RefreshToken
    issuedRefresh,  \* refresh JWTs handed out to clients
    resetTokens,    \* rows of table PasswordResetToken
    resetIssued,    \* reset tokens mailed so far
    passwordHash,   \* User.passwordHash, per user
    resetReq,       \* the in-flight resetPassword requests
    authLast,       \* the last auth response sent
    exchanged,      \* per refresh JWT: successful exchanges so far (capped)
    loggedOut,      \* refresh JWTs for which a logout request was handled
    pwChanges,      \* per reset token: number of password updates it caused
    \* ---- reviews ----
    reviews,        \* rows of table Review
    courseRating,   \* Course.rating, per course
    nextReviewId,   \* number of Review rows created so far
    reviewReq,      \* the in-flight submitCourseReview requests
    reviewLast,     \* the last response sent by a review handler
    \* ---- course authoring ----
    curricula,      \* rows of table Curriculum
    lessons,        \* rows of table Lesson
    quizzes,        \* rows of table Quiz
    questions,      \* rows of table Question
    rowsCreated,    \* rows created so far, per table
    courseLast,     \* the last outcome of a course authoring request
    \* ---- registration ----
    users,          \* rows of table User created by register
    profiles,       \* rows of StudentProfile, InstructorProfile, AdminProfile
    registerReq,    \* the register requests received so far, in order
    registerLast,   \* the last response sent by register
    \* ---- course catalog ----
    courses,        \* rows of table Course created by createCourse
    catalogLast     \* the last response of a catalog handler

authVars == <<build, now, ticks, refreshTokens, issuedRefresh, resetTokens,
              resetIssued, passwordHash, resetReq, authLast, exchanged,
              loggedOut, pwChanges>>

reviewVars == <<reviews, courseRating, nextReviewId, reviewReq, reviewLast>>

courseVars == <<curricula, lessons, quizzes, questions, rowsCreated,
                courseLast>>

registerVars == <<users, profiles, registerReq, registerLast>>

catalogVars == <<courses, catalogLast>>

vars == <<authVars, reviewVars, courseVars, registerVars, catalogVars>>

(***************************************************************************)
(* Bounds                                                                  *)
(***************************************************************************)
MaxTicks == 3
MaxLogins == 2
MaxResetTokens == 1
MaxReviews == 2
MaxCurricula == 2
MaxLessons == 2
MaxQuizzes == 1
MaxQuestions == 1
MaxPosition == 2
MaxRegisters == 2
MaxCourses == 2

(***************************************************************************)
(* Users                                                                   *)
(***************************************************************************)
UserIds == {"s1", "s2", "i1", "i2", "a1"}

Role(u) == CASE u \in {"s1", "s2"} -> "STUDENT"
             [] u \in {"i1", "i2"} -> "INSTRUCTOR"
             [] OTHER -> "ADMIN"

AuthUsers == {"s1"}
Emails == AuthUsers \cup {"nobody"}
ResetEmails == {"s1", "nobody"}
Passwords == {"p1", "p2"}
NoToken == [userId |-> "none", iat |-> -1, exp |-> -1]

(***************************************************************************)
(* Token utilities                                                         *)
(***************************************************************************)
Builds == {"v1", "v2"}
AccessTtlV1 == 60
JwtRefreshTtlV1 == 50
AccessTtlV2 == 15
JwtRefreshTtlV2 == 10080
AccessTtl(b) == IF b = "v1" THEN AccessTtlV1 ELSE AccessTtlV2
JwtRefreshTtl(b) == IF b = "v1" THEN JwtRefreshTtlV1 ELSE JwtRefreshTtlV2
RefreshRowTtl == 10080
ResetTtl == 15
TokenTickSteps == {1, RefreshRowTtl}
ResetTickSteps == {1, ResetTtl}

\* jwt.sign({userId}, secret, {expiresIn}): iat is the clock, exp = iat + ttl;
\* two tokens signed for the same user at the same clock value are equal.
generateRefreshToken(b, userId, t) ==
    [userId |-> userId, iat |-> t, exp |-> t + JwtRefreshTtl(b)]

generateAccessToken(b, userId, role, t) ==
    [userId |-> userId, role |-> role, exp |-> t + AccessTtl(b)]

\* crypto.createHash(alg).update(data).digest("hex"); createHash throws for
\* an algorithm name the runtime does not know.
HashAlgorithms == {"sha256"}
createHashThrows(alg) == alg \notin HashAlgorithms
\* variant that hands the data back undigested
createHash_plain(alg, data) == data
createHash(alg, data) == [alg |-> alg, of |-> data]

\* jwt.verify: TokenExpiredError when clockTimestamp >= exp
jwtVerifyOk_ignoreExpiration(token, t) == TRUE
jwtVerifyOk(token, t) == t < token.exp

\* bcrypt hash of a password
hashPassword(pw) == [bcrypt |-> pw]
comparePassword(pw, hash) == hash = hashPassword(pw)

\* a response: handler, HTTP status, the refresh token it was about, whether
\* it carries an access token, and (observed when the response is sent)
\* whether the row stored for that token had an expiresAt in the past
AuthResp(op, status, token, access, stale) ==
    [op |-> op, status |-> status, token |-> token, access |-> access,
     stale |-> stale]

Cap2(n) == IF n >= 2 THEN 2 ELSE n

(***************************************************************************)
(* Courses, enrollments and reviews                                        *)
(***************************************************************************)
Courses == {"c1", "c2"}
MissingCourse == "cX"
instructorId(c) == IF c = "c1" THEN "i1" ELSE "i2"

\* rows of table Enrollment (no handler of the repository writes it)
Enrollments ==
    {[studentId |-> "s1", courseId |-> "c1", status |-> "PAID"],
     [studentId |-> "s2", courseId |-> "c1", status |-> "PAID"],
     [studentId |-> "s2", courseId |-> "c2", status |-> "PENDING"]}

\* ratings of request bodies, in tenths: 0, 1, 4.5 and 6
RatingInputs == {0, 10, 45, 60}
\* parseInt of a non-negative number given in tenths
parseInt(tenths) == tenths \div 10
\* z.number().int()
isInt(tenths) == tenths % 10 = 0
Bodies == {"", "text"}
NoRating == -1

\* a double holding sum / n, kept as a fraction in lowest terms;
\* 0 / 0 is NaN
RECURSIVE Gcd(_, _)
Gcd(a, b) == IF b = 0 THEN a ELSE Gcd(b, a % b)
NaN == [num |-> 0, den |-> 0]
Quotient(sum, n) ==
    IF n = 0 THEN NaN
    ELSE LET g == Gcd(sum, n) IN [num |-> sum \div g, den |-> n \div g]

RECURSIVE SumRatings(_)
SumRatings(rs) ==
    IF rs = {} THEN 0
    ELSE LET r == CHOOSE x \in rs : TRUE
         IN  r.rating + SumRatings(rs \ {r})

\* findMany({ where: { courseId }, select: { rating: true } })
ReviewsOf(revs, c) == {r \in revs : r.courseId = c}

\* allReviews.reduce((sum, r) => sum + r.rating, 0) / allReviews.length
averageRating(revs, c) ==
    Quotient(SumRatings(ReviewsOf(revs, c)), Cardinality(ReviewsOf(revs, c)))

\* remainingReviews.length > 0 ? sum / length : 0
averageRatingOrZero_unguarded(revs, c) == averageRating(revs, c)
averageRatingOrZero(revs, c) ==
    IF Cardinality(ReviewsOf(revs, c)) > 0 THEN averageRating(revs, c)
    ELSE Quotient(0, 1)

ReviewResp(op, status, user, course) ==
    [op |-> op, status |-> status, user |-> user, course |-> course]

SubmitReqs == {1, 2}
IdleSubmit == [pc |-> "idle", user |-> "none", course |-> "none", rating |-> 0]

InitReview ==
    /\ reviews = {}
    /\ courseRating = [c \in Courses |-> Quotient(0, 1)]
    /\ nextReviewId = 0
    /\ reviewReq = [r \in SubmitReqs |-> IdleSubmit]
    /\ reviewLast = ReviewResp("none", 0, "none", "none")

(***************************************************************************)
(* Course authoring: curriculum sections, lessons, quizzes, questions      *)
(***************************************************************************)
CourseUsers == {"s1", "i1", "i2", "a1"}
PositionInputs == 0..MaxPosition
NoPosition == -1            \* position absent from the body
NoCurriculum == 0           \* Lesson.curriculumId is null / absent
KeepCurriculum == -1        \* curriculumId absent from an update body
NoResponse == -1            \* the request is never answered

\* utils/checkOwnership: the status of the object thrown, 0 when it returns
checkCourseOwnership(courseId, user) ==
    IF courseId \notin Courses THEN 404
    ELSE IF Role(user) = "INSTRUCTOR" /\ instructorId(courseId) # user THEN 403
    ELSE 0

\* a handler's own role guard
roleDenied(user) == Role(user) # "INSTRUCTOR" /\ Role(user) # "ADMIN"

\* a promise rejected outside any try/catch: Express 4 never answers,
\* Express 5 hands the error to its default handler, which answers with
\* err.status when that is an error status and with 500 otherwise
ExpressVersions == {4, 5}
UnhandledStatus(version, errStatus) ==
    IF version = 4 THEN NoResponse ELSE errStatus

CourseResp(op, status, user, course) ==
    [op |-> op, status |-> status, user |-> user, course |-> course]

\* updateMany({ where: { courseId, position: { gte: lo, lte: hi },
\*                       NOT: { id } }, data: { position: { increment } } })
ShiftPositions(rows, courseId, lo, hi, exceptId, delta) ==
    {IF /\ x.courseId = courseId
        /\ x.position >= lo
        /\ x.position <= hi
        /\ x.id # exceptId
     THEN [x EXCEPT !.position = @ + delta]
     ELSE x : x \in rows}

\* the reordering done by updateLesson and updateCurriculum before the row
\* itself is written
Reorder(rows, courseId, id, oldPosition, newPosition) ==
    IF newPosition = NoPosition \/ newPosition = oldPosition THEN rows
    ELSE IF newPosition < oldPosition
    THEN ShiftPositions(rows, courseId, newPosition, oldPosition - 1, id, 1)
    ELSE ShiftPositions(rows, courseId, oldPosition + 1, newPosition, id, -1)

\* variant without the renumbering step
CloseGap_none(rows, courseId, position) == rows
\* updateMany({ where: { courseId, position: { gt } },
\*              data: { position: { decrement: 1 } } })
CloseGap(rows, courseId, position) ==
    {IF x.courseId = courseId /\ x.position > position
     THEN [x EXCEPT !.position = @ - 1]
     ELSE x : x \in rows}

InitCourse ==
    /\ curricula = {}
    /\ lessons = {}
    /\ quizzes = {}
    /\ questions = {}
    /\ rowsCreated = [curriculum |-> 0, lesson |-> 0, quiz |-> 0, question |-> 0]
    /\ courseLast = CourseResp("none", 0, "none", "none")

(***************************************************************************)
(* Registration                                                            *)
(***************************************************************************)
RegisterEmails == {"n1", "n2"}
\* enum "Role" of the schema
RoleEnum == {"STUDENT", "INSTRUCTOR", "ADMIN"}
\* req.body.role: a member of the enum, absent, or a string outside it
NoRole == "undefined"
RoleInputs == RoleEnum \cup {NoRole, "TEACHER"}
\* the two register handlers of the repository: the TypeScript source and the
\* compiled controller; a request is served by one of them
RegisterHandlers == {"src", "dist"}

\* column "role" "Role" NOT NULL DEFAULT 'STUDENT'
DefaultRole == "STUDENT"
\* user.create({ data: { ..., role } }): an absent role takes the column
\* default, a value outside the enum is rejected by the client
userCreateThrows(role) == role # NoRole /\ role \notin RoleEnum
userCreate(email, password, role) ==
    [id |-> email, email |-> email, passwordHash |-> hashPassword(password),
     role |-> IF role = NoRole THEN DefaultRole ELSE role]

ProfileTable(role) == CASE role = "STUDENT" -> "StudentProfile"
                        [] role = "INSTRUCTOR" -> "InstructorProfile"
                        [] OTHER -> "AdminProfile"

\* if (role === "STUDENT") ... if (role === "INSTRUCTOR") ... if (role ===
\* "ADMIN") ...: the test is on the role of the request body
profileCreate(role, userId) ==
    IF role \in RoleEnum
    THEN {[table |-> ProfileTable(role), userId |-> userId]}
    ELSE {}

NoAccessToken == [userId |-> "none", role |-> "none", exp |-> -1]

\* a register response: status, the user it carries and the two tokens
RegisterResp(status, user, accessToken, refreshToken) ==
    [status |-> status, user |-> user, accessToken |-> accessToken,
     refreshToken |-> refreshToken]

\* a register request: the handler serving it, its body, where it stands
\* (pc "mail": sendMail was called and has not settled), the status answered
\* (0: none yet) and the fate of the welcome email
RegisterReq(handler, email, role, pc, status, mail) ==
    [handler |-> handler, email |-> email, role |-> role, pc |-> pc,
     status |-> status, mail |-> mail]

InitRegister ==
    /\ users = {}
    /\ profiles = {}
    /\ registerReq = <<>>
    /\ registerLast = RegisterResp(0, "none", NoAccessToken, NoToken)

(***************************************************************************)
(* Course catalog                                                          *)
(***************************************************************************)
\* enum "CourseStatus" of the schema
CourseStatuses ==
    {"DRAFT", "PENDING_APPROVAL", "APPROVED", "REJECTED", "ARCHIVED"}
\* status: z.enum([...]).optional(): a member of the enum or absent
NoStatus == "undefined"
StatusInputs == CourseStatuses \cup {NoStatus}
\* category: z.string().optional(); in a query, absent or 'all' selects all
NoCategory == "all"
Categories == {"web", "data"}

\* status: status || "DRAFT"
statusOrDraft(status) == IF status = NoStatus THEN "DRAFT" ELSE status

\* course.update({ data: updateData }): a key absent from the parsed body
\* leaves the column as it is
updateData(course, status) ==
    IF status = NoStatus THEN course ELSE [course EXCEPT !.status = status]

\* utils/checkOwnership against the rows of table Course: the status of the
\* object thrown, 0 when it returns
checkOwnershipOf(rows, courseId, user) ==
    IF ~\E c \in rows : c.id = courseId THEN 404
    ELSE IF Role(user) = "INSTRUCTOR"
            /\ \E c \in rows : c.id = courseId /\ c.instructorId # user
    THEN 403
    ELSE 0

\* where: {} narrowed by category only when the query names one
whereCourses(rows, category) ==
    IF category = NoCategory THEN rows
    ELSE {c \in rows : c.category = category}

\* findMany({ where, orderBy: { createdAt: 'desc' }, skip, take }): the ids on
\* the page; ids grow with createdAt
findManyPage(rows, skip, take) ==
    {c.id : c \in {x \in rows :
        LET newer == Cardinality({y \in rows : y.id > x.id})
        IN  newer >= skip /\ newer < skip + take}}

\* a catalog response: handler, status, the course written (0: none) and the
\* ids of the courses listed
CatalogResp(op, status, course, data) ==
    [op |-> op, status |-> status, course |-> course, data |-> data]

InitCatalog ==
    /\ courses = {}
    /\ catalogLast = CatalogResp("none", 0, 0, {})

(***************************************************************************)
(* Init                                                                    *)
(***************************************************************************)
ResetReqs == {1, 2}
NoRow == [id |-> 0, token |-> 0, userId |-> "none", expiresAt |-> -1]
\* a resetPassword request: where it stands in the handler (pc), its body
\* (token, newPassword), the row it read (record) and the status answered
\* (0: none yet, -1: the handler threw and no response is sent)
IdleReq == [pc |-> "idle", token |-> 0, newPassword |-> "none",
            record |-> NoRow, status |-> 0]

InitAuth ==
    /\ build \in Builds
    /\ now = 0
    /\ ticks = 0
    /\ refreshTokens = {}
    /\ issuedRefresh = {}
    /\ resetTokens = {}
    /\ resetIssued = {}
    /\ passwordHash = [u \in AuthUsers |-> hashPassword("p1")]
    /\ resetReq = [r \in ResetReqs |-> IdleReq]
    /\ authLast = AuthResp("none", 0, NoToken, FALSE, FALSE)
    /\ exchanged = [t \in {} |-> 0]
    /\ loggedOut = {}
    /\ pwChanges = [k \in 1..MaxResetTokens |-> 0]

Init == InitAuth /\ InitReview /\ InitCourse /\ InitRegister
            /\ InitCatalog

(***************************************************************************)
(* Clock                                                                   *)
(***************************************************************************)
Tick(d) ==
    /\ ticks < MaxTicks
    /\ now' = now + d
    /\ ticks' = ticks + 1
    /\ UNCHANGED <<reviewVars, courseVars, registerVars, catalogVars>>
    /\ UNCHANGED <<build, refreshTokens, issuedRefresh, resetTokens,
                   resetIssued, passwordHash, resetReq, authLast, exchanged,
                   loggedOut, pwChanges>>

(***************************************************************************)
(* login                                                                   *)
(***************************************************************************)
\* variant that digests the token together with a per-user salt
Login_salted(email, password) ==
    /\ Cardinality(issuedRefresh) < MaxLogins
    /\ IF email \notin AuthUsers
       THEN /\ authLast' = AuthResp("login", 404, NoToken, FALSE, FALSE)
            /\ UNCHANGED <<refreshTokens, issuedRefresh, exchanged>>
       ELSE IF ~comparePassword(password, passwordHash[email])
       THEN /\ authLast' = AuthResp("login", 401, NoToken, FALSE, FALSE)
            /\ UNCHANGED <<refreshTokens, issuedRefresh, exchanged>>
       ELSE LET refreshToken == generateRefreshToken(build, email, now)
                hashedRefreshToken ==
                    createHash("sha256", [salt |-> email, token |-> refreshToken])
            IN  IF \E row \in refreshTokens : row.tokenHash = hashedRefreshToken
                THEN \* unique constraint RefreshToken_tokenHash_key: P2002
                     /\ authLast' = AuthResp("login", 500, NoToken, FALSE, FALSE)
                     /\ UNCHANGED <<refreshTokens, issuedRefresh, exchanged>>
                ELSE /\ refreshTokens' = refreshTokens \cup
                            {[userId |-> email,
                              tokenHash |-> hashedRefreshToken,
                              expiresAt |-> now + RefreshRowTtl]}
                     /\ issuedRefresh' = issuedRefresh \cup {refreshToken}
                     /\ exchanged' = [t \in issuedRefresh' |->
                            IF t \in issuedRefresh THEN exchanged[t] ELSE 0]
                     /\ authLast' = AuthResp("login", 200, refreshToken, TRUE, FALSE)
    /\ UNCHANGED <<reviewVars, courseVars, registerVars, catalogVars>>
    /\ UNCHANGED <<build, now, ticks, resetTokens, resetIssued, passwordHash,
                   resetReq, loggedOut, pwChanges>>

Login(email, password) ==
    /\ Cardinality(issuedRefresh) < MaxLogins
    /\ IF email \notin AuthUsers
       THEN /\ authLast' = AuthResp("login", 404, NoToken, FALSE, FALSE)
            /\ UNCHANGED <<refreshTokens, issuedRefresh, exchanged>>
       ELSE IF ~comparePassword(password, passwordHash[email])
       THEN /\ authLast' = AuthResp("login", 401, NoToken, FALSE, FALSE)
            /\ UNCHANGED <<refreshTokens, issuedRefresh, exchanged>>
       ELSE LET refreshToken == generateRefreshToken(build, email, now)
                hashedRefreshToken == createHash("sha256", refreshToken)
            IN  IF \E row \in refreshTokens : row.tokenHash = hashedRefreshToken
                THEN \* unique constraint RefreshToken_tokenHash_key: P2002
                     /\ authLast' = AuthResp("login", 500, NoToken, FALSE, FALSE)
                     /\ UNCHANGED <<refreshTokens, issuedRefresh, exchanged>>
                ELSE /\ refreshTokens' = refreshTokens \cup
                            {[userId |-> email,
                              tokenHash |-> hashedRefreshToken,
                              expiresAt |-> now + RefreshRowTtl]}
                     /\ issuedRefresh' = issuedRefresh \cup {refreshToken}
                     /\ exchanged' = [t \in issuedRefresh' |->
                            IF t \in issuedRefresh THEN exchanged[t] ELSE 0]
                     /\ authLast' = AuthResp("login", 200, refreshToken, TRUE, FALSE)
    /\ UNCHANGED <<reviewVars, courseVars, registerVars, catalogVars>>
    /\ UNCHANGED <<build, now, ticks, resetTokens, resetIssued, passwordHash,
                   resetReq, loggedOut, pwChanges>>

(***************************************************************************)
(* refreshToken                                                            *)
(***************************************************************************)
\* variant that rotates: retires the presented row and stores a new token
RefreshToken_rotating(refreshToken) ==
    LET hashedToken == createHash("sha256", refreshToken)
        stored == {row \in refreshTokens : row.tokenHash = hashedToken}
        stale == \E row \in stored : row.expiresAt < now
        fresh == generateRefreshToken(build, refreshToken.userId, now)
    IN
    /\ IF refreshToken = NoToken
       THEN /\ authLast' = AuthResp("refresh", 400, refreshToken, FALSE, FALSE)
            /\ UNCHANGED <<exchanged, refreshTokens, issuedRefresh>>
       ELSE IF stored = {} \/ ~jwtVerifyOk(refreshToken, now)
       THEN /\ authLast' = AuthResp("refresh", 403, refreshToken, FALSE, stale)
            /\ UNCHANGED <<exchanged, refreshTokens, issuedRefresh>>
       ELSE /\ authLast' = AuthResp("refresh", 200, refreshToken, TRUE, stale)
            /\ refreshTokens' = (refreshTokens \ stored) \cup
                    {[userId |-> refreshToken.userId,
                      tokenHash |-> createHash("sha256", fresh),
                      expiresAt |-> now + RefreshRowTtl]}
            /\ issuedRefresh' = issuedRefresh \cup {fresh}
            /\ exchanged' = [t \in issuedRefresh' |->
                    IF t = refreshToken THEN Cap2(exchanged[t] + 1)
                    ELSE IF t \in issuedRefresh THEN exchanged[t] ELSE 0]
    /\ UNCHANGED <<reviewVars, courseVars, registerVars, catalogVars>>
    /\ UNCHANGED <<build, now, ticks, resetTokens, resetIssued, passwordHash,
                   resetReq, loggedOut, pwChanges>>

RefreshToken(refreshToken) ==
    LET hashedToken == createHash("sha256", refreshToken)
        stored == {row \in refreshTokens : row.tokenHash = hashedToken}
        stale == \E row \in stored : row.expiresAt < now
    IN
    /\ IF refreshToken = NoToken
       THEN /\ authLast' = AuthResp("refresh", 400, refreshToken, FALSE, FALSE)
            /\ UNCHANGED exchanged
       ELSE IF stored = {}
       THEN /\ authLast' = AuthResp("refresh", 403, refreshToken, FALSE, stale)
            /\ UNCHANGED exchanged
       ELSE IF ~jwtVerifyOk(refreshToken, now)
       THEN /\ authLast' = AuthResp("refresh", 403, refreshToken, FALSE, stale)
            /\ UNCHANGED exchanged
       ELSE IF refreshToken.userId \notin AuthUsers
       THEN /\ authLast' = AuthResp("refresh", 404, refreshToken, FALSE, stale)
            /\ UNCHANGED exchanged
       ELSE \* issue a new access token only
            /\ authLast' = AuthResp("refresh", 200, refreshToken, TRUE, stale)
            /\ exchanged' = [exchanged EXCEPT
                                ![refreshToken] = Cap2(@ + 1)]
    /\ UNCHANGED <<reviewVars, courseVars, registerVars, catalogVars>>
    /\ UNCHANGED <<build, now, ticks, refreshTokens, issuedRefresh, resetTokens,
                   resetIssued, passwordHash, resetReq, loggedOut, pwChanges>>

(***************************************************************************)
(* logout                                                                  *)
(***************************************************************************)
LogoutHashAlgorithm == "sha26"

Logout(refreshToken) ==
    LET hashedRefreshToken == createHash(LogoutHashAlgorithm, refreshToken)
    IN
    /\ IF refreshToken = NoToken
       THEN /\ authLast' = AuthResp("logout", 400, refreshToken, FALSE, FALSE)
            /\ UNCHANGED <<refreshTokens, loggedOut>>
       ELSE IF createHashThrows(LogoutHashAlgorithm)
       THEN \* caught by the handler's try/catch
            /\ authLast' = AuthResp("logout", 500, refreshToken, FALSE, FALSE)
            /\ loggedOut' = loggedOut \cup {refreshToken}
            /\ UNCHANGED refreshTokens
       ELSE /\ refreshTokens' = {row \in refreshTokens :
                                    row.tokenHash # hashedRefreshToken}
            /\ loggedOut' = loggedOut \cup {refreshToken}
            /\ authLast' = AuthResp("logout", 200, refreshToken, FALSE, FALSE)
    /\ UNCHANGED <<reviewVars, courseVars, registerVars, catalogVars>>
    /\ UNCHANGED <<build, now, ticks, issuedRefresh, resetTokens, resetIssued,
                   passwordHash, resetReq, exchanged, pwChanges>>

(***************************************************************************)
(* forgotPassword                                                          *)
(***************************************************************************)
\* crypto.randomBytes(32): a value not seen before
FreshResetToken == Cardinality(resetIssued) + 1

ForgotPassword(email) ==
    /\ Cardinality(resetIssued) < MaxResetTokens
    /\ IF email \notin AuthUsers
       THEN /\ authLast' = AuthResp("forgotPassword", 404, NoToken, FALSE, FALSE)
            /\ UNCHANGED <<resetTokens, resetIssued>>
       ELSE LET token == FreshResetToken
                expiresAt == now + ResetTtl
            IN  /\ resetTokens' = resetTokens \cup
                        {[id |-> token, token |-> token, userId |-> email,
                          expiresAt |-> expiresAt]}
                /\ resetIssued' = resetIssued \cup
                        {[token |-> token, userId |-> email,
                          issuedAt |-> now]}
                /\ authLast' = AuthResp("forgotPassword", 200, NoToken, FALSE, FALSE)
    /\ UNCHANGED <<reviewVars, courseVars, registerVars, catalogVars>>
    /\ UNCHANGED <<build, now, ticks, refreshTokens, issuedRefresh,
                   passwordHash, resetReq, exchanged, loggedOut, pwChanges>>

(***************************************************************************)
(* resetPassword, one action per database round trip                       *)
(***************************************************************************)
resetExpired_never(record, t) == FALSE
resetExpired(record, t) == record.expiresAt < t

\* findUnique({ where: { token } }) and the validity test
ResetFind(r, token, newPassword) ==
    LET found == {row \in resetTokens : row.token = token}
        resetRecord == IF found = {} THEN NoRow ELSE CHOOSE row \in found : TRUE
        req == [IdleReq EXCEPT !.token = token]
    IN
    /\ resetReq[r].pc = "idle"
    /\ IF found = {} \/ resetExpired(resetRecord, now)
       THEN resetReq' = [resetReq EXCEPT ![r] = [req EXCEPT !.status = 400]]
       ELSE resetReq' = [resetReq EXCEPT ![r] =
                            [req EXCEPT !.pc = "update",
                                        !.newPassword = newPassword,
                                        !.record = resetRecord]]
    /\ UNCHANGED <<reviewVars, courseVars, registerVars, catalogVars>>
    /\ UNCHANGED <<build, now, ticks, refreshTokens, issuedRefresh,
                   resetTokens, resetIssued, passwordHash, authLast,
                   exchanged, loggedOut, pwChanges>>

\* hashPassword and user.update({ where: { id: resetRecord.userId } })
ResetUpdate(r) ==
    LET req == resetReq[r]
    IN
    /\ req.pc = "update"
    /\ passwordHash' = [passwordHash EXCEPT ![req.record.userId] =
                            hashPassword(req.newPassword)]
    /\ pwChanges' = [pwChanges EXCEPT ![req.token] = Cap2(@ + 1)]
    /\ resetReq' = [resetReq EXCEPT ![r] =
                        [req EXCEPT !.pc = "delete",
                                    !.newPassword = "none"]]
    /\ UNCHANGED <<reviewVars, courseVars, registerVars, catalogVars>>
    /\ UNCHANGED <<build, now, ticks, refreshTokens, issuedRefresh,
                   resetTokens, resetIssued, authLast, exchanged, loggedOut>>

\* passwordResetToken.delete({ where: { id } }): P2025 when the row is gone;
\* the handler has no try/catch, so then it sends no response (status -1)
ResetDelete(r) ==
    LET req == resetReq[r]
    IN
    /\ req.pc = "delete"
    /\ IF req.record \in resetTokens
       THEN /\ resetTokens' = resetTokens \ {req.record}
            /\ resetReq' = [resetReq EXCEPT ![r] =
                                [req EXCEPT !.pc = "idle", !.status = 200,
                                            !.record = NoRow]]
       ELSE /\ resetReq' = [resetReq EXCEPT ![r] =
                                [req EXCEPT !.pc = "idle", !.status = -1,
                                            !.record = NoRow]]
            /\ UNCHANGED resetTokens
    /\ UNCHANGED <<reviewVars, courseVars, registerVars, catalogVars>>
    /\ UNCHANGED <<build, now, ticks, refreshTokens, issuedRefresh,
                   resetIssued, passwordHash, authLast, exchanged, loggedOut,
                   pwChanges>>

(***************************************************************************)
(* submitCourseReview, one action per database write                       *)
(***************************************************************************)
\* variant without the enrollment guard
SubmitCheck_unenrolled(r, user, courseId, rating, body) ==
    LET enrollment == {e \in Enrollments : /\ e.studentId = user
                                          /\ e.courseId = courseId
                                          /\ e.status = "PAID"}
        existingReview == {x \in reviews : /\ x.courseId = courseId
                                           /\ x.authorId = user}
        status ==
            IF Role(user) # "STUDENT" THEN 403
            ELSE IF rating = 0 \/ rating < 10 \/ rating > 50 THEN 400
            ELSE IF body = "" THEN 400
            ELSE IF courseId \notin Courses THEN 404
            ELSE IF existingReview # {} THEN 400
            ELSE 0
    IN
    /\ reviewReq[r].pc = "idle"
    /\ nextReviewId < MaxReviews
    /\ IF status # 0
       THEN /\ reviewLast' = ReviewResp("submitCourseReview", status, user,
                                        courseId)
            /\ UNCHANGED reviewReq
       ELSE /\ reviewReq' = [reviewReq EXCEPT ![r] =
                    [pc |-> "create", user |-> user, course |-> courseId,
                     rating |-> parseInt(rating)]]
            /\ UNCHANGED reviewLast
    /\ UNCHANGED <<reviews, courseRating, nextReviewId>>
    /\ UNCHANGED <<authVars, courseVars, registerVars, catalogVars>>

\* the guards, the course and enrollment lookups and review.findFirst
SubmitCheck(r, user, courseId, rating, body) ==
    LET enrollment == {e \in Enrollments : /\ e.studentId = user
                                          /\ e.courseId = courseId
                                          /\ e.status = "PAID"}
        existingReview == {x \in reviews : /\ x.courseId = courseId
                                           /\ x.authorId = user}
        status ==
            IF Role(user) # "STUDENT" THEN 403
            ELSE IF rating = 0 \/ rating < 10 \/ rating > 50 THEN 400
            ELSE IF body = "" THEN 400
            ELSE IF courseId \notin Courses THEN 404
            ELSE IF enrollment = {} THEN 403
            ELSE IF existingReview # {} THEN 400
            ELSE 0
    IN
    /\ reviewReq[r].pc = "idle"
    /\ nextReviewId < MaxReviews
    /\ IF status # 0
       THEN /\ reviewLast' = ReviewResp("submitCourseReview", status, user,
                                        courseId)
            /\ UNCHANGED reviewReq
       ELSE /\ reviewReq' = [reviewReq EXCEPT ![r] =
                    [pc |-> "create", user |-> user, course |-> courseId,
                     rating |-> parseInt(rating)]]
            /\ UNCHANGED reviewLast
    /\ UNCHANGED <<reviews, courseRating, nextReviewId>>
    /\ UNCHANGED <<authVars, courseVars, registerVars, catalogVars>>

\* review.create
SubmitCreate(r) ==
    LET req == reviewReq[r]
    IN
    /\ req.pc = "create"
    /\ reviews' = reviews \cup
            {[id |-> nextReviewId + 1, courseId |-> req.course,
              authorId |-> req.user, rating |-> req.rating]}
    /\ nextReviewId' = nextReviewId + 1
    /\ reviewReq' = [reviewReq EXCEPT ![r].pc = "recalc"]
    /\ UNCHANGED <<courseRating, reviewLast>>
    /\ UNCHANGED <<authVars, courseVars, registerVars, catalogVars>>

\* review.findMany, course.update and the 201 response
SubmitRecalc(r) ==
    LET req == reviewReq[r]
    IN
    /\ req.pc = "recalc"
    /\ courseRating' = [courseRating EXCEPT ![req.course] =
                            averageRating(reviews, req.course)]
    /\ reviewLast' = ReviewResp("submitCourseReview", 201, req.user,
                                req.course)
    /\ reviewReq' = [reviewReq EXCEPT ![r] = IdleSubmit]
    /\ UNCHANGED <<reviews, nextReviewId>>
    /\ UNCHANGED <<authVars, courseVars, registerVars, catalogVars>>

(***************************************************************************)
(* POST /student/courses/:courseId/reviews as the router mounts it         *)
(***************************************************************************)
NoUser == "undefined"

\* req.user when the handler runs: the route lists no middleware in front
\* of submitCourseReview and router.use(authenticate) is commented out, so
\* the bearer token of the request is never read
studentRouteUser(bearer) == NoUser

\* the request of the holder of a valid access token (bearer)
postStudentReview(r, bearer, courseId, rating, body) ==
    LET user == studentRouteUser(bearer)
    IN  IF user = NoUser
        THEN \* if (!user || user.role !== 'STUDENT')
             /\ reviewLast' = ReviewResp("submitCourseReview", 403, bearer,
                                         courseId)
             /\ UNCHANGED <<reviews, courseRating, nextReviewId, reviewReq>>
             /\ UNCHANGED <<authVars, courseVars, registerVars, catalogVars>>
        ELSE SubmitCheck(r, user, courseId, rating, body)

(***************************************************************************)
(* instructorReviewCourse                                                  *)
(***************************************************************************)
InstructorReviewCourse(user, courseId, rating) ==
    LET existingReview == {x \in reviews : /\ x.courseId = courseId
                                           /\ x.authorId = user}
        status ==
            IF ~isInt(rating) \/ rating < 10 \/ rating > 50
            THEN 500                        \* ZodError, generic catch
            ELSE IF Role(user) \notin {"INSTRUCTOR", "ADMIN"} THEN 403
            ELSE IF courseId \notin Courses THEN 404
            ELSE IF Role(user) = "INSTRUCTOR" /\ instructorId(courseId) = user
                 THEN 400
            ELSE IF existingReview # {} THEN 400
            ELSE 201
        created == reviews \cup
            {[id |-> nextReviewId + 1, courseId |-> courseId,
              authorId |-> user, rating |-> parseInt(rating)]}
    IN
    /\ nextReviewId < MaxReviews
    /\ reviewLast' = ReviewResp("instructorReviewCourse", status, user,
                                courseId)
    /\ IF status = 201
       THEN /\ reviews' = created
            /\ nextReviewId' = nextReviewId + 1
            /\ courseRating' = [courseRating EXCEPT ![courseId] =
                                    averageRating(created, courseId)]
       ELSE UNCHANGED <<reviews, nextReviewId, courseRating>>
    /\ UNCHANGED reviewReq
    /\ UNCHANGED <<authVars, courseVars, registerVars, catalogVars>>

(***************************************************************************)
(* PUT /reviews/:reviewId and DELETE /reviews/:reviewId                    *)
(***************************************************************************)
\* variant that lets every requester through
ReviewPermission_open(user, review) == 0
\* the permission checks shared by the two handlers: 0 when allowed
ReviewPermission(user, review) ==
    LET isAuthor == review.authorId = user
        isInstructor == instructorId(review.courseId) = user
        isAdmin == Role(user) = "ADMIN"
    IN  IF ~isAuthor /\ ~isInstructor /\ ~isAdmin THEN 403
        ELSE IF Role(user) = "STUDENT" /\ ~isAuthor THEN 403
        ELSE 0

EditReview(user, reviewId, rating) ==
    LET found == {x \in reviews : x.id = reviewId}
        review == CHOOSE x \in found : TRUE
        ratingGiven == rating # NoRating /\ rating # 0
        status ==
            IF found = {} THEN 404
            ELSE IF ReviewPermission(user, review) # 0 THEN 403
            ELSE IF ratingGiven /\ (rating < 10 \/ rating > 50) THEN 400
            ELSE 200
        updated == (reviews \ {review}) \cup
            {IF ratingGiven THEN [review EXCEPT !.rating = parseInt(rating)]
             ELSE review}
    IN
    /\ reviewLast' = ReviewResp("editReview", status, user,
            IF found = {} THEN "none" ELSE review.courseId)
    /\ IF status = 200
       THEN /\ reviews' = updated
            /\ courseRating' = [courseRating EXCEPT ![review.courseId] =
                                    averageRating(updated, review.courseId)]
       ELSE UNCHANGED <<reviews, courseRating>>
    /\ UNCHANGED <<nextReviewId, reviewReq>>
    /\ UNCHANGED <<authVars, courseVars, registerVars, catalogVars>>

DeleteReview(user, reviewId) ==
    LET found == {x \in reviews : x.id = reviewId}
        review == CHOOSE x \in found : TRUE
        status ==
            IF found = {} THEN 404
            ELSE IF ReviewPermission(user, review) # 0 THEN 403
            ELSE 200
        remaining == reviews \ {review}
    IN
    /\ reviewLast' = ReviewResp("deleteReview", status, user,
            IF found = {} THEN "none" ELSE review.courseId)
    /\ IF status = 200
       THEN /\ reviews' = remaining
            /\ courseRating' = [courseRating EXCEPT ![review.courseId] =
                                    averageRatingOrZero(remaining,
                                                        review.courseId)]
       ELSE UNCHANGED <<reviews, courseRating>>
    /\ UNCHANGED <<nextReviewId, reviewReq>>
    /\ UNCHANGED <<authVars, courseVars, registerVars, catalogVars>>

(***************************************************************************)
(* createCurriculum                                                        *)
(***************************************************************************)
createCurriculum(user, courseId, position, lessonIds) ==
    LET check == checkCourseOwnership(courseId, user)
        id == rowsCreated.curriculum + 1
        curriculum == [id |-> id, courseId |-> courseId, position |-> position]
        found == {l \in lessons : l.id \in lessonIds /\ l.courseId = courseId}
    IN
    /\ rowsCreated.curriculum < MaxCurricula
    /\ IF roleDenied(user)
       THEN /\ courseLast' = CourseResp("createCurriculum", 403, user, courseId)
            /\ UNCHANGED <<curricula, lessons, rowsCreated>>
       ELSE IF check # 0
       THEN \* thrown before the try block
            /\ \E v \in ExpressVersions :
                  courseLast' = CourseResp("createCurriculum",
                                    UnhandledStatus(v, check), user, courseId)
            /\ UNCHANGED <<curricula, lessons, rowsCreated>>
       ELSE /\ rowsCreated' = [rowsCreated EXCEPT !.curriculum = id]
            /\ IF Cardinality(found) # Cardinality(lessonIds)
               THEN \* the new section is deleted again
                    /\ courseLast' = CourseResp("createCurriculum", 400, user,
                                                courseId)
                    /\ UNCHANGED <<curricula, lessons>>
               ELSE /\ curricula' = curricula \cup {curriculum}
                    /\ lessons' = {IF l \in found
                                   THEN [l EXCEPT !.curriculumId = id]
                                   ELSE l : l \in lessons}
                    /\ courseLast' = CourseResp("createCurriculum", 201, user,
                                                courseId)
    /\ UNCHANGED <<quizzes, questions>>
    /\ UNCHANGED <<authVars, reviewVars, registerVars, catalogVars>>

(***************************************************************************)
(* createLesson                                                            *)
(***************************************************************************)
createLesson(user, courseId, position, curriculumId) ==
    LET check == checkCourseOwnership(courseId, user)
        id == rowsCreated.lesson + 1
        curriculum == {c \in curricula : c.id = curriculumId
                                           /\ c.courseId = courseId}
    IN
    /\ rowsCreated.lesson < MaxLessons
    /\ IF roleDenied(user)
       THEN /\ courseLast' = CourseResp("createLesson", 403, user, courseId)
            /\ UNCHANGED <<lessons, rowsCreated>>
       ELSE IF check # 0
       THEN \* thrown before the try block
            /\ \E v \in ExpressVersions :
                  courseLast' = CourseResp("createLesson",
                                    UnhandledStatus(v, check), user, courseId)
            /\ UNCHANGED <<lessons, rowsCreated>>
       ELSE IF curriculumId # NoCurriculum /\ curriculum = {}
       THEN /\ courseLast' = CourseResp("createLesson", 400, user, courseId)
            /\ UNCHANGED <<lessons, rowsCreated>>
       ELSE /\ lessons' = lessons \cup
                    {[id |-> id, courseId |-> courseId,
                      curriculumId |-> curriculumId, position |-> position]}
            /\ rowsCreated' = [rowsCreated EXCEPT !.lesson = id]
            /\ courseLast' = CourseResp("createLesson", 201, user, courseId)
    /\ UNCHANGED <<curricula, quizzes, questions>>
    /\ UNCHANGED <<authVars, reviewVars, registerVars, catalogVars>>

(***************************************************************************)
(* updateLesson                                                            *)
(***************************************************************************)
updateLesson(user, courseId, lessonId, position, curriculumId) ==
    LET check == IF Role(user) = "INSTRUCTOR"
                 THEN checkCourseOwnership(courseId, user) ELSE 0
        found == {l \in lessons : l.id = lessonId /\ l.courseId = courseId}
        lesson == CHOOSE l \in found : TRUE
        reordered == Reorder(lessons, courseId, lessonId, lesson.position,
                             position)
        updatedLesson ==
            [lesson EXCEPT
                !.position = IF position = NoPosition THEN @ ELSE position,
                !.curriculumId = IF curriculumId = KeepCurriculum THEN @
                                 ELSE curriculumId]
    IN
    /\ IF roleDenied(user)
       THEN /\ courseLast' = CourseResp("updateLesson", 403, user, courseId)
            /\ UNCHANGED lessons
       ELSE IF check # 0
       THEN \* caught: the thrown object is not a ZodError
            /\ courseLast' = CourseResp("updateLesson", 500, user, courseId)
            /\ UNCHANGED lessons
       ELSE IF found = {}
       THEN /\ courseLast' = CourseResp("updateLesson", 404, user, courseId)
            /\ UNCHANGED lessons
       ELSE IF /\ curriculumId # KeepCurriculum
               /\ ~\E c \in curricula : c.id = curriculumId
       THEN \* Lesson_curriculumId_fkey fails after the siblings were shifted
            /\ lessons' = reordered
            /\ courseLast' = CourseResp("updateLesson", 500, user, courseId)
       ELSE /\ lessons' = (reordered \ {lesson}) \cup {updatedLesson}
            /\ courseLast' = CourseResp("updateLesson", 200, user, courseId)
    /\ UNCHANGED <<curricula, quizzes, questions, rowsCreated>>
    /\ UNCHANGED <<authVars, reviewVars, registerVars, catalogVars>>

(***************************************************************************)
(* deleteLesson                                                            *)
(***************************************************************************)
deleteLesson(user, courseId, lessonId) ==
    LET check == IF Role(user) = "INSTRUCTOR"
                 THEN checkCourseOwnership(courseId, user) ELSE 0
        found == {l \in lessons : l.id = lessonId /\ l.courseId = courseId}
        lesson == CHOOSE l \in found : TRUE
    IN
    /\ IF roleDenied(user)
       THEN /\ courseLast' = CourseResp("deleteLesson", 403, user, courseId)
            /\ UNCHANGED lessons
       ELSE IF check # 0
       THEN \* caught: handlePrismaError answers 500 for an unknown error
            /\ courseLast' = CourseResp("deleteLesson", 500, user, courseId)
            /\ UNCHANGED lessons
       ELSE IF found = {}
       THEN /\ courseLast' = CourseResp("deleteLesson", 404, user, courseId)
            /\ UNCHANGED lessons
       ELSE /\ lessons' = CloseGap(lessons \ {lesson}, courseId,
                                   lesson.position)
            /\ courseLast' = CourseResp("deleteLesson", 200, user, courseId)
    /\ UNCHANGED <<curricula, quizzes, questions, rowsCreated>>
    /\ UNCHANGED <<authVars, reviewVars, registerVars, catalogVars>>

(***************************************************************************)
(* updateCurriculum                                                        *)
(***************************************************************************)
\* given: the body carries lessonIds (then lessonIds is its value)
updateCurriculum(user, courseId, curriculumId, position, given, lessonIds) ==
    LET check == IF Role(user) = "INSTRUCTOR"
                 THEN checkCourseOwnership(courseId, user) ELSE 0
        found == {c \in curricula : c.id = curriculumId
                                      /\ c.courseId = courseId}
        curriculum == CHOOSE c \in found : TRUE
        reordered == Reorder(curricula, courseId, curriculumId,
                             curriculum.position, position)
        currentLessonIds == {l.id : l \in {x \in lessons :
                                            x.curriculumId = curriculumId}}
        lessonsToAttach == IF given THEN lessonIds \ currentLessonIds ELSE {}
        lessonsToDetach == IF given THEN currentLessonIds \ lessonIds ELSE {}
        attachable == {l \in lessons : l.id \in lessonsToAttach
                                         /\ l.courseId = courseId}
        lessonsInOtherCurriculums ==
            {l \in attachable : l.curriculumId # NoCurriculum
                                  /\ l.curriculumId # curriculumId}
        attached == {IF l \in attachable
                     THEN [l EXCEPT !.curriculumId = curriculumId]
                     ELSE l : l \in lessons}
        detached == {IF /\ l.id \in lessonsToDetach
                        /\ l.curriculumId = curriculumId
                        /\ l.courseId = courseId
                     THEN [l EXCEPT !.curriculumId = NoCurriculum]
                     ELSE l : l \in attached}
        updatedCurriculum ==
            [curriculum EXCEPT
                !.position = IF position = NoPosition THEN @ ELSE position]
    IN
    /\ IF roleDenied(user)
       THEN /\ courseLast' = CourseResp("updateCurriculum", 403, user, courseId)
            /\ UNCHANGED <<curricula, lessons>>
       ELSE IF check # 0
       THEN /\ courseLast' = CourseResp("updateCurriculum", 500, user, courseId)
            /\ UNCHANGED <<curricula, lessons>>
       ELSE IF found = {}
       THEN /\ courseLast' = CourseResp("updateCurriculum", 404, user, courseId)
            /\ UNCHANGED <<curricula, lessons>>
       ELSE IF \/ Cardinality(attachable) # Cardinality(lessonsToAttach)
               \/ lessonsInOtherCurriculums # {}
       THEN \* answered 400 after the sibling sections were shifted
            /\ curricula' = reordered
            /\ courseLast' = CourseResp("updateCurriculum", 400, user, courseId)
            /\ UNCHANGED lessons
       ELSE /\ curricula' = (reordered \ {curriculum}) \cup {updatedCurriculum}
            /\ lessons' = detached
            /\ courseLast' = CourseResp("updateCurriculum", 200, user, courseId)
    /\ UNCHANGED <<quizzes, questions, rowsCreated>>
    /\ UNCHANGED <<authVars, reviewVars, registerVars, catalogVars>>

(***************************************************************************)
(* deleteCurriculum                                                        *)
(***************************************************************************)
deleteCurriculum(user, courseId, curriculumId) ==
    LET check == IF Role(user) = "INSTRUCTOR"
                 THEN checkCourseOwnership(courseId, user) ELSE 0
        found == {c \in curricula : c.id = curriculumId
                                      /\ c.courseId = courseId}
        curriculum == CHOOSE c \in found : TRUE
        lessonCount == Cardinality({l \in lessons :
                                        l.curriculumId = curriculumId})
    IN
    /\ IF roleDenied(user)
       THEN /\ courseLast' = CourseResp("deleteCurriculum", 403, user, courseId)
            /\ UNCHANGED curricula
       ELSE IF check # 0
       THEN /\ courseLast' = CourseResp("deleteCurriculum", 500, user, courseId)
            /\ UNCHANGED curricula
       ELSE IF found = {}
       THEN /\ courseLast' = CourseResp("deleteCurriculum", 404, user, courseId)
            /\ UNCHANGED curricula
       ELSE IF lessonCount > 0
       THEN /\ courseLast' = CourseResp("deleteCurriculum", 400, user, courseId)
            /\ UNCHANGED curricula
       ELSE /\ curricula' = CloseGap(curricula \ {curriculum}, courseId,
                                     curriculum.position)
            /\ courseLast' = CourseResp("deleteCurriculum", 200, user, courseId)
    /\ UNCHANGED <<lessons, quizzes, questions, rowsCreated>>
    /\ UNCHANGED <<authVars, reviewVars, registerVars, catalogVars>>

(***************************************************************************)
(* createQuiz, addQuestionToQuiz, deleteQuiz, deleteQuestion               *)
(***************************************************************************)
createQuiz(user, courseId) ==
    LET id == rowsCreated.quiz + 1
    IN
    /\ rowsCreated.quiz < MaxQuizzes
    /\ IF courseId \notin Courses
       THEN \* connect fails, caught
            /\ courseLast' = CourseResp("createQuiz", 500, user, courseId)
            /\ UNCHANGED <<quizzes, rowsCreated>>
       ELSE /\ quizzes' = quizzes \cup {[id |-> id, courseId |-> courseId]}
            /\ rowsCreated' = [rowsCreated EXCEPT !.quiz = id]
            /\ courseLast' = CourseResp("createQuiz", 201, user, courseId)
    /\ UNCHANGED <<curricula, lessons, questions>>
    /\ UNCHANGED <<authVars, reviewVars, registerVars, catalogVars>>

\* the course of a quiz, "none" when there is no such quiz
CourseOfQuiz(quizId) ==
    IF \E q \in quizzes : q.id = quizId
    THEN (CHOOSE q \in quizzes : q.id = quizId).courseId
    ELSE "none"

addQuestionToQuiz(user, quizId) ==
    LET id == rowsCreated.question + 1
    IN
    /\ rowsCreated.question < MaxQuestions
    /\ IF ~\E q \in quizzes : q.id = quizId
       THEN /\ courseLast' = CourseResp("addQuestionToQuiz", 500, user, "none")
            /\ UNCHANGED <<questions, rowsCreated>>
       ELSE /\ questions' = questions \cup {[id |-> id, quizId |-> quizId]}
            /\ rowsCreated' = [rowsCreated EXCEPT !.question = id]
            /\ courseLast' = CourseResp("addQuestionToQuiz", 201, user,
                                        CourseOfQuiz(quizId))
    /\ UNCHANGED <<curricula, lessons, quizzes>>
    /\ UNCHANGED <<authVars, reviewVars, registerVars, catalogVars>>

deleteQuiz(user, courseId, quizId) ==
    LET check == IF Role(user) = "INSTRUCTOR"
                 THEN checkCourseOwnership(courseId, user) ELSE 0
        found == {q \in quizzes : q.id = quizId /\ q.courseId = courseId}
    IN
    /\ IF roleDenied(user)
       THEN /\ courseLast' = CourseResp("deleteQuiz", 403, user, courseId)
            /\ UNCHANGED <<quizzes, questions>>
       ELSE IF check # 0
       THEN /\ courseLast' = CourseResp("deleteQuiz", 500, user, courseId)
            /\ UNCHANGED <<quizzes, questions>>
       ELSE IF found = {}
       THEN /\ courseLast' = CourseResp("deleteQuiz", 404, user, courseId)
            /\ UNCHANGED <<quizzes, questions>>
       ELSE \* Question_quizId_fkey: ON DELETE CASCADE
            /\ quizzes' = quizzes \ found
            /\ questions' = {x \in questions : x.quizId # quizId}
            /\ courseLast' = CourseResp("deleteQuiz", 200, user, courseId)
    /\ UNCHANGED <<curricula, lessons, rowsCreated>>
    /\ UNCHANGED <<authVars, reviewVars, registerVars, catalogVars>>

deleteQuestion(user, questionId) ==
    LET found == {x \in questions : x.id = questionId}
        question == CHOOSE x \in found : TRUE
        courseId == IF found = {} THEN "none" ELSE CourseOfQuiz(question.quizId)
        check == IF Role(user) = "INSTRUCTOR" /\ found # {}
                 THEN checkCourseOwnership(courseId, user) ELSE 0
    IN
    /\ IF roleDenied(user)
       THEN /\ courseLast' = CourseResp("deleteQuestion", 403, user, courseId)
            /\ UNCHANGED questions
       ELSE IF found = {}
       THEN /\ courseLast' = CourseResp("deleteQuestion", 404, user, courseId)
            /\ UNCHANGED questions
       ELSE IF check # 0
       THEN /\ courseLast' = CourseResp("deleteQuestion", 500, user, courseId)
            /\ UNCHANGED questions
       ELSE /\ questions' = questions \ found
            /\ courseLast' = CourseResp("deleteQuestion", 200, user, courseId)
    /\ UNCHANGED <<curricula, lessons, quizzes, rowsCreated>>
    /\ UNCHANGED <<authVars, reviewVars, registerVars, catalogVars>>

(***************************************************************************)
(* register                                                                *)
(***************************************************************************)
\* refreshToken.create({ data: { userId, tokenHash, expiresAt } })
RefreshRow(userId, refreshToken) ==
    [userId |-> userId, tokenHash |-> createHash("sha256", refreshToken),
     expiresAt |-> now + RefreshRowTtl]

\* the TypeScript handler up to its await of sendMail: findUnique, then
\* user.create and the profile create, each committed on its own
register(email, password, role) ==
    /\ Len(registerReq) < MaxRegisters
    /\ IF \E u \in users : u.email = email
       THEN /\ registerReq' = Append(registerReq,
                    RegisterReq("src", email, role, "done", 400, "none"))
            /\ registerLast' = RegisterResp(400, "none", NoAccessToken, NoToken)
            /\ UNCHANGED <<users, profiles>>
       ELSE IF userCreateThrows(role)
       THEN /\ registerReq' = Append(registerReq,
                    RegisterReq("src", email, role, "done", 500, "none"))
            /\ registerLast' = RegisterResp(500, "none", NoAccessToken, NoToken)
            /\ UNCHANGED <<users, profiles>>
       ELSE LET user == userCreate(email, password, role)
            IN  /\ users' = users \cup {user}
                /\ profiles' = profiles \cup profileCreate(role, user.id)
                /\ registerReq' = Append(registerReq,
                        RegisterReq("src", email, role, "mail", 0, "pending"))
                /\ UNCHANGED registerLast
    /\ UNCHANGED <<authVars, reviewVars, courseVars, catalogVars>>

\* the compiled handler: findUnique, then user, profile and refresh-token row
\* in one $transaction, the access token, sendMail without await, and 201
register_dist(email, password, role) ==
    /\ Len(registerReq) < MaxRegisters
    /\ IF \E u \in users : u.email = email
       THEN /\ registerReq' = Append(registerReq,
                    RegisterReq("dist", email, role, "done", 400, "none"))
            /\ registerLast' = RegisterResp(400, "none", NoAccessToken, NoToken)
            /\ UNCHANGED <<users, profiles, refreshTokens, issuedRefresh,
                           exchanged>>
       ELSE IF userCreateThrows(role)
       THEN \* the transaction is rolled back
            /\ registerReq' = Append(registerReq,
                    RegisterReq("dist", email, role, "done", 500, "none"))
            /\ registerLast' = RegisterResp(500, "none", NoAccessToken, NoToken)
            /\ UNCHANGED <<users, profiles, refreshTokens, issuedRefresh,
                           exchanged>>
       ELSE LET user == userCreate(email, password, role)
                refreshToken == generateRefreshToken(build, user.id, now)
                accessToken == generateAccessToken(build, user.id, user.role, now)
            IN  /\ users' = users \cup {user}
                /\ profiles' = profiles \cup profileCreate(role, user.id)
                /\ refreshTokens' = refreshTokens \cup
                        {RefreshRow(user.id, refreshToken)}
                /\ issuedRefresh' = issuedRefresh \cup {refreshToken}
                /\ exchanged' = [t \in issuedRefresh' |->
                        IF t \in issuedRefresh THEN exchanged[t] ELSE 0]
                /\ registerReq' = Append(registerReq,
                        RegisterReq("dist", email, role, "mail", 201, "pending"))
                /\ registerLast' = RegisterResp(201, user.id, accessToken,
                                                refreshToken)
    /\ UNCHANGED <<reviewVars, courseVars, catalogVars>>
    /\ UNCHANGED <<build, now, ticks, resetTokens, resetIssued, passwordHash,
                   resetReq, authLast, loggedOut, pwChanges>>

\* the promise of sendMail resolves. The TypeScript handler resumes: tokens,
\* refresh-token row, 201. The compiled handler has answered already.
sendMailResolves(r) ==
    /\ r \in 1..Len(registerReq)
    /\ registerReq[r].pc = "mail"
    /\ IF registerReq[r].handler = "src"
       THEN LET user == CHOOSE u \in users : u.email = registerReq[r].email
                refreshToken == generateRefreshToken(build, user.id, now)
                accessToken == generateAccessToken(build, user.id, user.role, now)
            IN  /\ refreshTokens' = refreshTokens \cup
                        {RefreshRow(user.id, refreshToken)}
                /\ issuedRefresh' = issuedRefresh \cup {refreshToken}
                /\ exchanged' = [t \in issuedRefresh' |->
                        IF t \in issuedRefresh THEN exchanged[t] ELSE 0]
                /\ registerReq' = [registerReq EXCEPT ![r].pc = "done",
                                       ![r].status = 201, ![r].mail = "sent"]
                /\ registerLast' = RegisterResp(201, user.id, accessToken,
                                                refreshToken)
       ELSE /\ registerReq' = [registerReq EXCEPT ![r].pc = "done",
                                   ![r].mail = "sent"]
            /\ UNCHANGED <<refreshTokens, issuedRefresh, exchanged,
                           registerLast>>
    /\ UNCHANGED <<users, profiles>>
    /\ UNCHANGED <<reviewVars, courseVars, catalogVars>>
    /\ UNCHANGED <<build, now, ticks, resetTokens, resetIssued, passwordHash,
                   resetReq, authLast, loggedOut, pwChanges>>

\* the promise of sendMail rejects. In the TypeScript handler the await
\* throws into the catch block: 500. In the compiled handler .catch logs it.
sendMailRejects(r) ==
    /\ r \in 1..Len(registerReq)
    /\ registerReq[r].pc = "mail"
    /\ IF registerReq[r].handler = "src"
       THEN /\ registerReq' = [registerReq EXCEPT ![r].pc = "done",
                                   ![r].status = 500, ![r].mail = "failed"]
            /\ registerLast' = RegisterResp(500, "none", NoAccessToken, NoToken)
       ELSE /\ registerReq' = [registerReq EXCEPT ![r].pc = "done",
                                   ![r].mail = "failed"]
            /\ UNCHANGED registerLast
    /\ UNCHANGED <<users, profiles>>
    /\ UNCHANGED <<authVars, reviewVars, courseVars, catalogVars>>

(***************************************************************************)
(* createCourse, updateCourse, getAllCourses                               *)
(***************************************************************************)
createCourse(user, category, status) ==
    /\ Cardinality(courses) < MaxCourses
    /\ IF roleDenied(user)
       THEN /\ catalogLast' = CatalogResp("createCourse", 403, 0, {})
            /\ UNCHANGED courses
       ELSE LET newCourse == [id |-> Cardinality(courses) + 1,
                              instructorId |-> user,
                              category |-> category,
                              status |-> statusOrDraft(status)]
            IN  /\ courses' = courses \cup {newCourse}
                /\ catalogLast' =
                        CatalogResp("createCourse", 201, newCourse.id, {})
    /\ UNCHANGED <<authVars, reviewVars, courseVars, registerVars>>

updateCourse(user, courseId, status) ==
    LET check == IF Role(user) = "INSTRUCTOR"
                 THEN checkOwnershipOf(courses, courseId, user) ELSE 0
        found == {c \in courses : c.id = courseId}
        allReviews == ReviewsOf(reviews, courseId)
    IN
    /\ IF roleDenied(user)
       THEN /\ catalogLast' = CatalogResp("updateCourse", 403, 0, {})
            /\ UNCHANGED <<courses, courseRating>>
       ELSE IF check # 0 \/ found = {}
       THEN \* the object thrown, or P2025 of course.update, reaches the catch
            /\ catalogLast' = CatalogResp("updateCourse", 500, 0, {})
            /\ UNCHANGED <<courses, courseRating>>
       ELSE /\ courses' = (courses \ found) \cup
                    {updateData(c, status) : c \in found}
            /\ IF Cardinality(allReviews) > 0
               THEN courseRating' = [courseRating EXCEPT
                        ![courseId] = averageRating(reviews, courseId)]
               ELSE UNCHANGED courseRating
            /\ catalogLast' = CatalogResp("updateCourse", 200, courseId, {})
    /\ UNCHANGED <<reviews, nextReviewId, reviewReq, reviewLast>>
    /\ UNCHANGED <<authVars, courseVars, registerVars>>

getAllCourses(category, page, limit) ==
    LET where == whereCourses(courses, category)
        skip == (page - 1) * limit
    IN
    /\ catalogLast' = CatalogResp("getAllCourses", 200, 0,
                                  findManyPage(where, skip, limit))
    /\ UNCHANGED courses
    /\ UNCHANGED <<authVars, reviewVars, courseVars, registerVars>>

NextToken ==
    \/ \E d \in TokenTickSteps : Tick(d)
    \/ \E e \in Emails, p \in Passwords : Login(e, p)
    \/ \E t \in issuedRefresh \cup {NoToken} : RefreshToken(t)
    \/ \E t \in issuedRefresh \cup {NoToken} : Logout(t)

NextReset ==
    \/ \E d \in ResetTickSteps : Tick(d)
    \/ \E e \in ResetEmails : ForgotPassword(e)
    \/ \E r \in ResetReqs, k \in 0..MaxResetTokens, p \in Passwords :
            ResetFind(r, k, p)
    \/ \E r \in ResetReqs : ResetUpdate(r)
    \/ \E r \in ResetReqs : ResetDelete(r)

\* the token lifecycle: login, refresh, logout
SpecToken == Init /\ [][NextToken]_vars
\* the password reset flow, requests interleaved at their database calls
SpecReset == Init /\ [][NextReset]_vars

(***************************************************************************)
(* Properties of the token lifecycle                                       *)
(***************************************************************************)
StoredRowOf(token) ==
    {row \in refreshTokens : row.tokenHash = createHash("sha256", token)}

\* C1 (as stated): refresh tokens are rotated, so no refresh token is ever
\* exchanged successfully twice.
C1_NeverExchangedTwice ==
    \A t \in issuedRefresh : exchanged[t] <= 1

\* C1 (amended): a successful exchange issues a new access token only: no
\* refresh token is issued and the presented one stays stored, so the same
\* refresh token can be exchanged again.
C1_ExchangeLeavesRefreshToken ==
    [][(authLast'.op = "refresh" /\ authLast'.status = 200)
        => /\ authLast'.access
           /\ refreshTokens' = refreshTokens
           /\ issuedRefresh' = issuedRefresh
           /\ \E row \in refreshTokens' :
                 row.tokenHash = createHash("sha256", authLast'.token)]_vars

C1_Witness ==
    \E t \in issuedRefresh :
        /\ exchanged[t] = 2
        /\ authLast = AuthResp("refresh", 200, t, TRUE, FALSE)
        /\ StoredRowOf(t) # {}

\* C2: once a logout request carrying refresh token R has been handled, no
\* later refresh request presenting R succeeds or obtains an access token.
C2_LogoutInvalidates ==
    (authLast.op = "refresh" /\ authLast.token \in loggedOut)
        => (authLast.status # 200 /\ ~authLast.access)

\* C6: a refresh request presenting a token whose stored expiresAt has
\* passed is rejected and issues no access token.
C6_ExpiredRefreshRejected ==
    (authLast.op = "refresh" /\ authLast.stale)
        => (authLast.status # 200 /\ ~authLast.access)

C6_Witness ==
    /\ authLast.op = "refresh"
    /\ authLast.stale
    /\ authLast.status = 403
    /\ \E row \in StoredRowOf(authLast.token) : row.expiresAt < now

(***************************************************************************)
(* Properties of the password reset flow                                   *)
(***************************************************************************)
\* C4: a reset token is single-use: at most one request per token changes
\* the password, also when two requests with the token overlap.
C4_SingleUse ==
    \A k \in 1..MaxResetTokens : pwChanges[k] <= 1

\* C5: a resetPassword request presenting a token more than 15 minutes after
\* forgotPassword issued it is answered 400 at once and leaves the password
\* unchanged.
C5_LateResetRejected ==
    [][\A r \in ResetReqs :
        (resetReq[r].pc = "idle" /\ resetReq'[r] # resetReq[r])
        => \A i \in resetIssued :
              (i.token = resetReq'[r].token /\ now > i.issuedAt + ResetTtl)
              => /\ resetReq'[r].status = 400
                 /\ resetReq'[r].pc = "idle"
                 /\ passwordHash' = passwordHash]_vars

C5_Witness ==
    \E r \in ResetReqs, i \in resetIssued :
        /\ resetReq[r].pc = "idle"
        /\ resetReq[r].status = 400
        /\ resetReq[r].token = i.token
        /\ now > i.issuedAt + ResetTtl
        /\ \E row \in resetTokens : row.token = i.token

ReviewUsers == {"s1", "s2", "i1", "a1"}
ReviewIds == 1..MaxReviews
AllIdle == \A r \in SubmitReqs : reviewReq[r].pc = "idle"

\* review requests handled one at a time
NextReview ==
    \/ \E u \in ReviewUsers, c \in Courses \cup {MissingCourse},
          g \in RatingInputs, b \in Bodies :
            AllIdle /\ SubmitCheck(1, u, c, g, b)
    \/ SubmitCreate(1)
    \/ SubmitRecalc(1)
    \/ \E u \in ReviewUsers, c \in Courses \cup {MissingCourse},
          g \in RatingInputs :
            AllIdle /\ InstructorReviewCourse(u, c, g)
    \/ \E u \in ReviewUsers, i \in ReviewIds,
          g \in RatingInputs \cup {NoRating} :
            AllIdle /\ EditReview(u, i, g)
    \/ \E u \in ReviewUsers, i \in ReviewIds :
            AllIdle /\ DeleteReview(u, i)

\* submitCourseReview requests interleaved at their database calls
NextReviewRace ==
    \/ \E r \in SubmitReqs, u \in ReviewUsers,
          c \in Courses \cup {MissingCourse},
          g \in RatingInputs, b \in Bodies :
            SubmitCheck(r, u, c, g, b)
    \/ \E r \in SubmitReqs : SubmitCreate(r)
    \/ \E r \in SubmitReqs : SubmitRecalc(r)
    \/ \E u \in ReviewUsers, i \in ReviewIds : DeleteReview(u, i)

\* submitCourseReview and DELETE /reviews by the two students, of whom s1
\* holds a PAID enrollment in c1 only and s2 a PAID one in c1 and a PENDING
\* one in c2
SubmitUsers == {"s1", "s2"}

NextSubmit ==
    \/ \E u \in SubmitUsers, c \in Courses \cup {MissingCourse},
          g \in RatingInputs, b \in Bodies :
            AllIdle /\ SubmitCheck(1, u, c, g, b)
    \/ SubmitCreate(1)
    \/ SubmitRecalc(1)
    \/ \E u \in SubmitUsers, i \in ReviewIds :
            AllIdle /\ DeleteReview(u, i)

\* the review routes as app.use('/api', ...) serves them
NextReviewRoutes ==
    \/ \E u \in ReviewUsers, c \in Courses \cup {MissingCourse},
          g \in RatingInputs, b \in Bodies :
            postStudentReview(1, u, c, g, b)
    \/ \E u \in ReviewUsers, c \in Courses \cup {MissingCourse},
          g \in RatingInputs :
            InstructorReviewCourse(u, c, g)
    \/ \E u \in ReviewUsers, i \in ReviewIds,
          g \in RatingInputs \cup {NoRating} :
            EditReview(u, i, g)
    \/ \E u \in ReviewUsers, i \in ReviewIds :
            DeleteReview(u, i)

\* reviews written by an instructor and an admin, then PUT and DELETE
\* /reviews/:reviewId by every kind of requester
ReviewAuthors == {"i1", "a1"}
ManageRatings == {45, 60, NoRating}

NextReviewManage ==
    \/ \E u \in ReviewAuthors, c \in Courses : InstructorReviewCourse(u, c, 10)
    \/ \E u \in ReviewUsers, i \in ReviewIds, g \in ManageRatings :
            EditReview(u, i, g)
    \/ \E u \in ReviewUsers, i \in ReviewIds : DeleteReview(u, i)

SpecReview == Init /\ [][NextReview]_vars
SpecReviewManage == Init /\ [][NextReviewManage]_vars
SpecReviewRoutes == Init /\ [][NextReviewRoutes]_vars
SpecSubmit == Init /\ [][NextSubmit]_vars
SpecReviewRace == Init /\ [][NextReviewRace]_vars

C8_RatingIsMean ==
    AllIdle =>
        \A c \in Courses :
            LET rs == {x \in reviews : x.courseId = c}
            IN  IF rs = {}
                THEN courseRating[c].num = 0 /\ courseRating[c].den = 1
                ELSE /\ courseRating[c].den > 0
                     /\ courseRating[c].num * Cardinality(rs)
                            = SumRatings(rs) * courseRating[c].den

C8_Witness ==
    /\ AllIdle
    /\ reviewLast.op = "editReview"
    /\ reviewLast.status = 200
    /\ \E c \in Courses :
          /\ Cardinality({x \in reviews : x.courseId = c}) = 2
          /\ courseRating[c] = [num |-> 5, den |-> 2]

LessonIds == 1..MaxLessons
CurriculumIds == 1..MaxCurricula
LessonIdLists == {{}} \cup {{l} : l \in LessonIds}

\* requester and course of the section requests
SectionCallers ==
    {<<u, "c1">> : u \in CourseUsers} \cup {<<"i1", MissingCourse>>}

\* authoring of lessons
NextLesson ==
    \/ \E u \in CourseUsers, c \in Courses \cup {MissingCourse},
          p \in PositionInputs, k \in CurriculumIds \cup {NoCurriculum} :
            createLesson(u, c, p, k)
    \/ \E u \in CourseUsers, c \in Courses \cup {MissingCourse},
          l \in LessonIds, p \in PositionInputs \cup {NoPosition},
          k \in CurriculumIds \cup {KeepCurriculum} :
            updateLesson(u, c, l, p, k)
    \/ \E u \in CourseUsers, c \in Courses \cup {MissingCourse},
          l \in LessonIds :
            deleteLesson(u, c, l)

\* authoring of the sections of one course, with lessons to attach
NextCurriculum ==
    \/ \E r \in SectionCallers, p \in PositionInputs, ls \in LessonIdLists :
            createCurriculum(r[1], r[2], p, ls)
    \/ \E r \in SectionCallers, k \in CurriculumIds,
          p \in PositionInputs \cup {NoPosition} :
            \/ updateCurriculum(r[1], r[2], k, p, FALSE, {})
            \/ \E ls \in LessonIdLists :
                  updateCurriculum(r[1], r[2], k, p, TRUE, ls)
    \/ \E r \in SectionCallers, k \in CurriculumIds :
            deleteCurriculum(r[1], r[2], k)
    \/ \E k \in CurriculumIds \cup {NoCurriculum} :
            createLesson("i1", "c1", 0, k)

\* authoring of quizzes and questions
NextQuiz ==
    \/ \E u \in CourseUsers, c \in Courses \cup {MissingCourse} :
            createQuiz(u, c)
    \/ \E u \in CourseUsers, q \in 1..MaxQuizzes : addQuestionToQuiz(u, q)
    \/ \E u \in CourseUsers, c \in Courses \cup {MissingCourse},
          q \in 1..MaxQuizzes :
            deleteQuiz(u, c, q)
    \/ \E u \in CourseUsers, x \in 1..MaxQuestions : deleteQuestion(u, x)

\* requester and course of the requests that build and prune a course
DeleteCallers == {<<"i1", "c1">>, <<"i2", "c1">>}
\* position and section of the lessons created there
LessonPlacements ==
    {<<p, NoCurriculum>> : p \in PositionInputs} \cup {<<0, 1>>}

\* building a course's sections and lessons and deleting them again
NextDelete ==
    \/ \E r \in DeleteCallers, m \in LessonPlacements :
            createLesson(r[1], r[2], m[1], m[2])
    \/ \E r \in DeleteCallers, p \in PositionInputs :
            createCurriculum(r[1], r[2], p, {})
    \/ \E r \in DeleteCallers, l \in LessonIds :
            deleteLesson(r[1], r[2], l)
    \/ \E r \in DeleteCallers, k \in CurriculumIds :
            deleteCurriculum(r[1], r[2], k)

\* the lessons of the two sections of one course: placed, moved and deleted
\* by the course's instructor
NextSections ==
    \/ \E p \in PositionInputs : createCurriculum("i1", "c1", p, {})
    \/ \E p \in PositionInputs, k \in CurriculumIds :
            createLesson("i1", "c1", p, k)
    \/ \E l \in LessonIds, p \in PositionInputs :
            updateLesson("i1", "c1", l, p, KeepCurriculum)
    \/ \E l \in LessonIds : deleteLesson("i1", "c1", l)

RegisterSlots == 1..MaxRegisters

NextRegister ==
    \/ \E e \in RegisterEmails, x \in RoleInputs : register(e, "p1", x)
    \/ \E e \in RegisterEmails, x \in RoleInputs : register_dist(e, "p1", x)
    \/ \E r \in RegisterSlots : sendMailResolves(r)
    \/ \E r \in RegisterSlots : sendMailRejects(r)
    \/ \E e \in Emails, p \in Passwords : Login(e, p)

CreateCallers == {"i1", "s1"}
UpdateCallers == {"i1", "i2", "a1"}
CatalogIds == 1..MaxCourses
\* page and limit of the query
Pages == {<<1, 10>>, <<2, 1>>}

NextCatalog ==
    \/ \E u \in CreateCallers, g \in Categories, x \in StatusInputs :
            createCourse(u, g, x)
    \/ \E u \in UpdateCallers, c \in CatalogIds, x \in StatusInputs :
            updateCourse(u, c, x)
    \/ \E g \in {NoCategory, "web"}, q \in Pages : getAllCourses(g, q[1], q[2])

SpecLesson == Init /\ [][NextLesson]_vars
SpecCurriculum == Init /\ [][NextCurriculum]_vars
SpecQuiz == Init /\ [][NextQuiz]_vars
SpecDelete == Init /\ [][NextDelete]_vars
SpecSections == Init /\ [][NextSections]_vars
SpecRegister == Init /\ [][NextRegister]_vars
SpecCatalog == Init /\ [][NextCatalog]_vars

(***************************************************************************)
(* Properties of course authoring                                          *)
(***************************************************************************)
\* the requester owns the course as its instructor, or is an admin
OwnerOrAdmin(user, courseId) ==
    \/ Role(user) = "ADMIN"
    \/ courseId \in Courses /\ instructorId(courseId) = user

\* C3: a request that creates, updates or deletes a child of a course
\* (section, lesson, quiz, question) and is made by anyone but the owning
\* instructor of that course or an admin leaves the stored children
\* unchanged.
C3_OnlyOwnerOrAdminMutates ==
    [][~OwnerOrAdmin(courseLast'.user, courseLast'.course)
          => UNCHANGED <<curricula, lessons, quizzes, questions>>]_vars

\* the positions held by the rows of one course
PositionsOf(rows, courseId) ==
    {x.position : x \in {y \in rows : y.courseId = courseId}}

\* no two rows of the course share a position
DistinctPositions(rows, courseId) ==
    Cardinality(PositionsOf(rows, courseId))
        = Cardinality({y \in rows : y.courseId = courseId})

\* the n rows of the course hold the positions 0..n-1 exactly once each
Contiguous(rows, courseId) ==
    PositionsOf(rows, courseId)
        = 0..(Cardinality({y \in rows : y.courseId = courseId}) - 1)

\* C9: when the lessons and the sections of a course hold pairwise distinct
\* positions, a successful createLesson or createCurriculum for that course
\* leaves them holding pairwise distinct positions (the siblings at and
\* after the inserted position having been shifted).
C9_InsertKeepsPositionsDistinct ==
    [][\A c \in Courses :
          (/\ courseLast'.op \in {"createLesson", "createCurriculum"}
           /\ courseLast'.status = 201
           /\ courseLast'.course = c
           /\ DistinctPositions(lessons, c)
           /\ DistinctPositions(curricula, c))
          => /\ DistinctPositions(lessons', c)
             /\ DistinctPositions(curricula', c)]_vars

\* C10: when the lessons of a course hold the positions 0..n-1 exactly once
\* each, they do so again after any updateLesson request for that course,
\* whatever position it sets; likewise the sections of a course under
\* updateCurriculum.
C10_UpdateKeepsPermutation ==
    [][\A c \in Courses :
          (/\ courseLast'.op \in {"updateLesson", "updateCurriculum"}
           /\ courseLast'.course = c
           /\ Contiguous(lessons, c)
           /\ Contiguous(curricula, c))
          => /\ Contiguous(lessons', c)
             /\ Contiguous(curricula', c)]_vars

\* `after` is `before` without one row d, the rows of d's course placed
\* after d moved down by one and every other row where it was
RemovedAndClosed(before, after) ==
    \E d \in before :
        /\ {y.id : y \in after} = {x.id : x \in before} \ {d.id}
        /\ \A x \in before \ {d} :
              \E y \in after :
                  /\ y.id = x.id
                  /\ y.courseId = x.courseId
                  /\ y.position =
                        IF x.courseId = d.courseId /\ x.position > d.position
                        THEN x.position - 1 ELSE x.position

\* C11: a successful deleteLesson removes the lesson, moves every lesson of
\* the course placed after it down by exactly one and leaves all others in
\* place, so that lessons holding 0..n-1 hold 0..n-2 afterwards; likewise
\* deleteCurriculum for an empty section and the sections of its course.
C11_DeleteReorders ==
    [][/\ (courseLast'.op = "deleteLesson" /\ courseLast'.status = 200)
           => /\ RemovedAndClosed(lessons, lessons')
              /\ \A c \in Courses :
                    Contiguous(lessons, c) => Contiguous(lessons', c)
       /\ (courseLast'.op = "deleteCurriculum" /\ courseLast'.status = 200)
           => /\ RemovedAndClosed(curricula, curricula')
              /\ \A c \in Courses :
                    Contiguous(curricula, c) => Contiguous(curricula', c)]_vars

\* a lesson was deleted from a course that still has lessons, and they
\* hold contiguous positions
C11_Witness ==
    /\ courseLast.op = "deleteLesson"
    /\ courseLast.status = 200
    /\ rowsCreated.lesson = MaxLessons
    /\ \E l \in lessons : l.courseId = courseLast.course
    /\ Contiguous(lessons, courseLast.course)

(***************************************************************************)
(* Properties of registration                                              *)
(***************************************************************************)
ProfilesOf(u) == {p \in profiles : p.userId = u.id}

\* C12: every User row has exactly one profile row, and that row is in the
\* profile table of the user's role, whatever role the register request
\* carried or left out.
C12_OneMatchingProfile ==
    \A u \in users :
        /\ Cardinality(ProfilesOf(u)) = 1
        /\ \A p \in ProfilesOf(u) : p.table = ProfileTable(u.role)

\* request q created the User row of its email and has not failed
Holds(q) ==
    \/ registerReq[q].pc = "mail"
    \/ registerReq[q].status = 201

\* C13: a register request answered 201 has its User row and its refresh-token
\* row; a register request that failed (500) leaves no User row of its email
\* behind, so that the only User row of that email, if any, is the one of
\* another request that did not fail.
C13_RegisterAtomic ==
    \A r \in 1..Len(registerReq) :
        LET req == registerReq[r]
        IN  /\ req.status = 201 =>
                  /\ \E u \in users : u.email = req.email
                  /\ \E row \in refreshTokens : row.userId = req.email
            /\ req.status = 500 =>
                  \/ ~\E u \in users : u.email = req.email
                  \/ \E q \in 1..Len(registerReq) :
                        /\ q # r
                        /\ registerReq[q].email = req.email
                        /\ Holds(q)

\* C14: a register request whose welcome email is still undelivered or whose
\* delivery failed has been answered 201.
C14_MailDoesNotBlock ==
    \A r \in 1..Len(registerReq) :
        registerReq[r].mail \in {"pending", "failed"}
            => registerReq[r].status = 201

\* C15: when a register response carries a refresh token and an access token
\* signed together, the refresh token's validity period (exp - iat) is
\* strictly longer than the access token's.
C15_RefreshOutlivesAccess ==
    registerLast.status = 201 =>
        LET issuedAt == registerLast.refreshToken.iat
        IN  registerLast.refreshToken.exp - issuedAt
                > registerLast.accessToken.exp - issuedAt

\* C16: every RefreshToken row, whether register or login created it, holds
\* in tokenHash the SHA-256 digest of a refresh token that was issued, and
\* holds no issued refresh token itself.
C16_RowsHoldSha256Digest ==
    \A row \in refreshTokens :
        /\ \E t \in issuedRefresh :
              row.tokenHash = [alg |-> "sha256", of |-> t]
        /\ row.tokenHash \notin issuedRefresh

\* rows stored by login, by the TypeScript register and by the compiled one
C16_Witness ==
    /\ \E row \in refreshTokens : row.userId \in AuthUsers
    /\ \E r \in 1..Len(registerReq) :
          /\ registerReq[r].handler = "src"
          /\ registerReq[r].status = 201
          /\ \E row \in refreshTokens : row.userId = registerReq[r].email
    /\ \E r \in 1..Len(registerReq) :
          /\ registerReq[r].handler = "dist"
          /\ registerReq[r].status = 201
          /\ \E row \in refreshTokens : row.userId = registerReq[r].email

\* C17 (as stated): the stored value is derived from the token together with
\* a salt, so no stored tokenHash is the digest of an issued token alone.
C17_StoredValueNeedsSalt ==
    \A row \in refreshTokens :
        \A t \in issuedRefresh : row.tokenHash # createHash("sha256", t)

\* C17 (amended): the stored value is the unsalted digest, a function of the
\* token alone: every stored row is the row that the lookup of the refresh
\* operation, which digests the presented token and nothing else, finds for
\* an issued token of the row's user.
C17_StoredValueFromTokenAlone ==
    \A row \in refreshTokens :
        \E t \in issuedRefresh :
            /\ t.userId = row.userId
            /\ row \in StoredRowOf(t)

\* a row is stored and the refresh operation found it from the token alone
C17_Witness ==
    \E t \in issuedRefresh :
        /\ authLast = AuthResp("refresh", 200, t, TRUE, FALSE)
        /\ StoredRowOf(t) # {}

(***************************************************************************)
(* Properties of the course catalog                                        *)
(***************************************************************************)
\* DRAFT -> PENDING_APPROVAL -> APPROVED or REJECTED -> ARCHIVED
WorkflowStep(from, to) ==
    <<from, to>> \in {<<"DRAFT", "PENDING_APPROVAL">>,
                      <<"PENDING_APPROVAL", "APPROVED">>,
                      <<"PENDING_APPROVAL", "REJECTED">>,
                      <<"APPROVED", "ARCHIVED">>,
                      <<"REJECTED", "ARCHIVED">>}

\* C18: a course starts in status DRAFT, and every request that changes the
\* status of a course moves it one step along the workflow.
C18_StatusFollowsWorkflow ==
    [][\A c \in courses' :
          /\ (~\E o \in courses : o.id = c.id) => c.status = "DRAFT"
          /\ \A o \in courses :
                (o.id = c.id /\ o.status # c.status)
                    => WorkflowStep(o.status, c.status)]_vars

\* C19: every course in the result of the public listing is published, that
\* is, has status APPROVED.
C19_ListingOnlyPublished ==
    catalogLast.op = "getAllCourses" =>
        \A c \in courses : c.id \in catalogLast.data => c.status = "APPROVED"

(***************************************************************************)
(* Properties of review submission                                         *)
(***************************************************************************)
Paid(user, courseId) ==
    \E e \in Enrollments : /\ e.studentId = user
                           /\ e.courseId = courseId
                           /\ e.status = "PAID"

C21_EnrolledStudentCanReview ==
    [][\A u \in {v \in ReviewUsers : Role(v) = "STUDENT"} :
       \A c \in {d \in Courses : Paid(u, d)} :
       \A r \in SubmitReqs, g \in {h \in RatingInputs : h >= 10 /\ h <= 50},
          b \in Bodies \ {""} :
           (/\ ~\E x \in reviews : x.authorId = u /\ x.courseId = c
            /\ reviewReq[r].pc = "idle"
            /\ postStudentReview(r, u, c, g, b))
           => /\ reviewReq'[r].pc = "create"
              /\ reviewReq'[r].user = u
              /\ reviewReq'[r].course = c]_vars

\* the requester is the review's author, the instructor of the reviewed
\* course, or an admin
MayManage(user, review) ==
    \/ review.authorId = user
    \/ instructorId(review.courseId) = user
    \/ Role(user) = "ADMIN"

\* C23: a review is changed or removed only by a request of its author, of
\* the instructor of its course or of an admin; a PUT or DELETE
\* /reviews/:reviewId request of anyone else for an existing review is
\* answered 403 and leaves the reviews and the course ratings as they were.
C23_OnlyAuthorInstructorAdmin ==
    [][/\ \A x \in reviews \ reviews' :
              /\ reviewLast'.op \in {"editReview", "deleteReview"}
              /\ MayManage(reviewLast'.user, x)
       /\ \A x \in reviews :
          \A u \in {v \in ReviewUsers : ~MayManage(v, x)} :
              (\/ DeleteReview(u, x.id)
               \/ \E g \in RatingInputs \cup {NoRating} :
                      EditReview(u, x.id, g))
              => /\ reviewLast'.status = 403
                 /\ reviewLast'.user = u
                 /\ reviews' = reviews
                 /\ courseRating' = courseRating]_vars

\* a stored review and the refusal of a requester who is none of the three
C23_Witness ==
    \E x \in reviews :
        /\ reviewLast.op \in {"editReview", "deleteReview"}
        /\ reviewLast.status = 403
        /\ reviewLast.course = x.courseId
        /\ reviewLast.user \in ReviewUsers
        /\ ~MayManage(reviewLast.user, x)

\* C22: every mutating operation that performs the ownership check
\* (createCurriculum, createLesson, updateLesson, deleteLesson) answers an
\* instructor with 404 when the course does not exist and with 403 when the
\* course exists and belongs to another instructor
C22_OwnershipErrorsAnswered ==
    /\ courseLast.op \in {"createCurriculum", "createLesson", "updateLesson",
                          "deleteLesson"}
    /\ Role(courseLast.user) = "INSTRUCTOR"
    => /\ courseLast.course = MissingCourse => courseLast.status = 404
       /\ /\ courseLast.course \in Courses
          /\ instructorId(courseLast.course) # courseLast.user
          => courseLast.status = 403

\* C24: moving or deleting a lesson that is attached to a section leaves the
\* position of every lesson attached to another section of the course
\* unchanged
C24_OtherSectionsKeepPositions ==
    [][\A l \in LessonIds :
          \/ deleteLesson("i1", "c1", l)
          \/ \E p \in PositionInputs :
                updateLesson("i1", "c1", l, p, KeepCurriculum)
          => \A t \in lessons, x \in lessons, y \in lessons' :
                /\ t.id = l
                /\ t.curriculumId # NoCurriculum
                /\ x.id = y.id
                /\ x.id # l
                /\ x.curriculumId # NoCurriculum
                /\ x.curriculumId # t.curriculumId
                => y.position = x.position]_vars

Next ==
    NextToken \/ NextReset \/ NextReview \/ NextReviewRace \/ NextLesson
        \/ NextCurriculum \/ NextQuiz \/ NextDelete \/ NextRegister \/ NextCatalog
        \/ NextSubmit \/ NextReviewRoutes \/ NextReviewManage \/ NextSections

Spec == Init /\ [][Next]_vars
====
